---- MODULE Spec2Model ----
(***************************************************************************)
(* A model of package argon2 (src/argon2.go): the Argon2 hash value, its   *)
(* constructors New and NewByEncoded, its canonical rendering String, the  *)
(* comparison Compare and the sql.Scanner / driver.Valuer pair Scan and    *)
(* Value.                                                                  *)
(*                                                                         *)
(* Go strings are sequences of one-character strings, byte slices are      *)
(* sequences of numbers 0..255.  A Go slice is a record [isNil, b] so that *)
(* a nil slice and an empty non-nil slice stay different values.           *)
(***************************************************************************)
EXTENDS Integers, Sequences, FiniteSets

VARIABLES a, col, last, origin

vars == <<a, col, last, origin>>

(***************************************************************************)
(* Program constants (src/argon2.go:30-39) and argon2.Version.             *)
(***************************************************************************)
iterations == 3

memory == 65536

parallelism == 2

keyLength == 32

saltLength == 16

encodedSlicesCount == 6

Version == 19

(***************************************************************************)
(* Bounds of the model.                                                    *)
(***************************************************************************)
\* the random source supplies one of NumSalts different 16-byte blocks
NumSalts == 2

\* the plaintexts are the first NumPlain entries of Plaintexts
NumPlain == 2

(***************************************************************************)
(* Text and bytes.                                                         *)
(***************************************************************************)
Digits == <<"0", "1", "2", "3", "4", "5", "6", "7", "8", "9">>

B64Alphabet ==
    <<"A", "B", "C", "D", "E", "F", "G", "H", "I", "J", "K", "L", "M",
      "N", "O", "P", "Q", "R", "S", "T", "U", "V", "W", "X", "Y", "Z",
      "a", "b", "c", "d", "e", "f", "g", "h", "i", "j", "k", "l", "m",
      "n", "o", "p", "q", "r", "s", "t", "u", "v", "w", "x", "y", "z",
      "0", "1", "2", "3", "4", "5", "6", "7", "8", "9", "+", "/">>

\* the printable ASCII characters, code 32 first (code 96 is spelled out)
Printable ==
    <<" ", "!", "\"", "#", "$", "%", "&", "'", "(", ")", "*", "+", ",",
      "-", ".", "/", "0", "1", "2", "3", "4", "5", "6", "7", "8", "9",
      ":", ";", "<", "=", ">", "?", "@", "A", "B", "C", "D", "E", "F",
      "G", "H", "I", "J", "K", "L", "M", "N", "O", "P", "Q", "R", "S",
      "T", "U", "V", "W", "X", "Y", "Z", "[", "\\", "]", "^", "_", "grave",
      "a", "b", "c", "d", "e", "f", "g", "h", "i", "j", "k", "l", "m",
      "n", "o", "p", "q", "r", "s", "t", "u", "v", "w", "x", "y", "z",
      "{", "|", "}", "~">>

IndexOf(seq, c) == CHOOSE i \in 1..Len(seq) : seq[i] = c

\* Body applied to the value of v, v being evaluated once
Let(v, Body(_)) == CHOOSE y \in {Body(x) : x \in {v}} : TRUE

IsIn(seq, c) == \E i \in 1..Len(seq) : seq[i] = c

\* []byte(s) for an ASCII string s
BytesOf(s) == [i \in 1..Len(s) |-> IndexOf(Printable, s[i]) + 31]

\* a Go slice: nil, or present with contents b
NilSlice == [isNil |-> TRUE, b |-> <<>>]

Slice(b) == [isNil |-> FALSE, b |-> b]

(***************************************************************************)
(* base64.RawStdEncoding: the standard alphabet, no padding, the decoder   *)
(* not strict (the unused low bits of a final partial group are ignored,   *)
(* carriage returns and line feeds in the input are skipped).              *)
(***************************************************************************)
\* every 3 bytes make a 24-bit group written as 4 characters; a final
\* group of 1 or 2 bytes is written as 2 or 3 characters
EncodeToString(b) ==
    LET byte(i)  == IF i <= Len(b) THEN b[i] ELSE 0
        group(g) == byte(3 * g + 1) * 65536 + byte(3 * g + 2) * 256 + byte(3 * g + 3)
        sextet(j) == (group((j - 1) \div 4) \div (64 ^ (3 - ((j - 1) % 4)))) % 64
    IN  [j \in 1..((Len(b) * 8 + 5) \div 6) |-> B64Alphabet[sextet(j) + 1]]

\* every 4 characters make a 24-bit group of 3 bytes; a final group of 2 or
\* 3 characters gives 1 or 2 bytes
DecodeQuanta(s) ==
    LET d(i)     == IF i <= Len(s) THEN IndexOf(B64Alphabet, s[i]) - 1 ELSE 0
        group(g) == d(4 * g + 1) * 262144 + d(4 * g + 2) * 4096
                    + d(4 * g + 3) * 64 + d(4 * g + 4)
        byte(k)  == (group((k - 1) \div 3) \div (256 ^ (2 - ((k - 1) % 3)))) % 256
    IN  [k \in 1..((Len(s) * 6) \div 8) |-> byte(k)]

\* DecodeString: [ok, b]; ok is FALSE for a base64.CorruptInputError
DecodeString(s) ==
    \* the input without its carriage returns and line feeds
    LET keep == {i \in 1..Len(s) : s[i] \notin {"\r", "\n"}}
        bad  == \E i \in keep : ~IsIn(B64Alphabet, s[i])
    IN  IF bad \/ Cardinality(keep) % 4 = 1
        THEN [b |-> <<>>, ok |-> FALSE]
        ELSE [b  |-> DecodeQuanta(SelectSeq(s, LAMBDA c : c \notin {"\r", "\n"})),
              ok |-> TRUE]

(***************************************************************************)
(* fmt: the verb %d of Sprintf, and of Sscanf for a signed or an unsigned  *)
(* integer of a given width.                                               *)
(***************************************************************************)
FormatUint(n) ==
    LET nd == IF n >= 1000000000 THEN 10
              ELSE CHOOSE k \in 1..9 : n < 10 ^ k /\ (k = 1 \/ n >= 10 ^ (k - 1))
    IN  [i \in 1..nd |-> Digits[((n \div (10 ^ (nd - i))) % 10) + 1]]

\* the number the first k digits of ds denote
RECURSIVE DigitsValueTo(_, _)
DigitsValueTo(ds, k) ==
    IF k = 0 THEN 0
    ELSE DigitsValueTo(ds, k - 1) * 10 + (IndexOf(Digits, ds[k]) - 1)

DigitsValue(ds) == DigitsValueTo(ds, Len(ds))

\* ds without its leading zeros (one digit is always kept)
StripZeros(ds) ==
    LET first == CHOOSE k \in 1..Len(ds) :
                     /\ \A j \in 1..(k - 1) : ds[j] = "0"
                     /\ k = Len(ds) \/ ds[k] # "0"
    IN  SubSeq(ds, first, Len(ds))

\* x <= y for two digit strings of the same length
LexLE(x, y) ==
    \/ x = y
    \/ \E i \in 1..Len(x) :
           /\ IndexOf(Digits, x[i]) < IndexOf(Digits, y[i])
           /\ \A j \in 1..(i - 1) : x[j] = y[j]

\* the largest value of uint8, of uint32, of int (64 bits), and -(the smallest int)
MaxUint8 == <<"2", "5", "5">>

MaxUint32 == <<"4", "2", "9", "4", "9", "6", "7", "2", "9", "5">>

MaxInt == <<"9", "2", "2", "3", "3", "7", "2", "0", "3", "6",
            "8", "5", "4", "7", "7", "5", "8", "0", "7">>

MinIntMagnitude == <<"9", "2", "2", "3", "3", "7", "2", "0", "3", "6",
                     "8", "5", "4", "7", "7", "5", "8", "0", "8">>

\* does the decimal token ds denote a number <= max
FitsIn(ds, max) ==
    \/ Len(StripZeros(ds)) < Len(max)
    \/ Len(StripZeros(ds)) = Len(max) /\ LexLE(StripZeros(ds), max)

\* fmt's isSpace, without the line feed that SkipSpace treats apart: tab,
\* vertical tab (U+000B), form feed, carriage return, space, NEL (U+0085),
\* NBSP (U+00A0) and U+1680, each written as the character itself.  The
\* other spaces of isSpace (U+2000 to U+200A, U+2028, U+2029, U+202F, U+205F,
\* U+3000) are characters no string of this module can hold.
Blanks == {"\t", "", "\f", "\r", " ", "", " ", " "}

\* (s *ss) SkipSpace under Sscanf (nlIsSpace false): the first position from
\* pos on that holds no space character, or 0 ("unexpected newline") when a
\* line feed is met on the way
SkipSpace(s, pos) ==
    Let(CHOOSE p \in pos..(Len(s) + 1) :
            /\ \A q \in pos..(p - 1) : s[q] \in Blanks
            /\ p = Len(s) + 1 \/ s[p] \notin Blanks,
        LAMBDA p : IF p <= Len(s) /\ s[p] = "\n" THEN 0 ELSE p)

\* the first position from pos on that holds no decimal digit
DigitsEnd(s, pos) ==
    CHOOSE p \in pos..(Len(s) + 1) :
        /\ \A q \in pos..(p - 1) : IsIn(Digits, s[q])
        /\ p = Len(s) + 1 \/ ~IsIn(Digits, s[p])

\* the verb %d read at s[pos]: leading blanks, a sign when the operand is
\* signed, then a run of decimal digits that must fit the operand's type.
\* [ok, val, next]: next is the position after the number.
ScanInteger(s, pos, signed, max, negMax) ==
    LET fail == [ok |-> FALSE, val |-> 0, next |-> 0]
        neg(p0) == signed /\ p0 <= Len(s) /\ s[p0] = "-"
        start(p0) == IF signed /\ p0 <= Len(s) /\ s[p0] \in {"+", "-"}
                     THEN p0 + 1 ELSE p0
        number(p0, p1, p2) ==
            IF p2 = p1 THEN fail
            ELSE Let(SubSeq(s, p1, p2 - 1), LAMBDA tok :
                   IF ~FitsIn(tok, IF neg(p0) THEN negMax ELSE max) THEN fail
                   ELSE [ok   |-> TRUE,
                         val  |-> (IF neg(p0) THEN 0 - 1 ELSE 1)
                                  * DigitsValue(StripZeros(tok)),
                         next |-> p2])
    IN  Let(SkipSpace(s, pos), LAMBDA p0 :
          IF p0 = 0 THEN fail
          ELSE Let(start(p0), LAMBDA p1 :
                 Let(DigitsEnd(s, p1), LAMBDA p2 : number(p0, p1, p2))))

\* a literal piece of a Sscanf format read at s[pos]: the position after it,
\* or 0 when the input does not match
MatchLiteral(s, pos, lit) ==
    IF pos + Len(lit) - 1 <= Len(s) /\ SubSeq(s, pos, pos + Len(lit) - 1) = lit
    THEN pos + Len(lit) ELSE 0

\* one step of Sscanf: the literal lit, then %d.  pos = 0 says that the
\* scan has failed before, and a failed step leaves next = 0.
ScanField(s, pos, lit, signed, max, negMax) ==
    IF pos = 0 THEN [ok |-> FALSE, val |-> 0, next |-> 0]
    ELSE Let(MatchLiteral(s, pos, lit), LAMBDA p :
           IF p = 0 THEN [ok |-> FALSE, val |-> 0, next |-> 0]
           ELSE ScanInteger(s, p, signed, max, negMax))

\* strings.Split(s, sep) for a one-character sep: the pieces between the
\* occurrences of sep, one more than there are occurrences
Split(s, sep) ==
    LET at      == {i \in 1..Len(s) : s[i] = sep}
        nth(k)  == IF k = 0 THEN 0
                   ELSE IF k > Cardinality(at) THEN Len(s) + 1
                   ELSE CHOOSE i \in at : Cardinality({j \in at : j < i}) = k - 1
    IN  [k \in 1..(Cardinality(at) + 1) |-> SubSeq(s, nth(k - 1) + 1, nth(k) - 1)]

(***************************************************************************)
(* Errors: an error is its chain of wrapped errors, outermost first, and   *)
(* the nil error is the empty chain.  errors.Is looks along the chain.     *)
(***************************************************************************)
NoError == <<>>

ErrInvalidEncodedHash == <<"the encoded hash is not in the correct format">>

ErrIncompatibleVersion == <<"incompatible version of argon2">>

ErrScan == <<"cannot scan the given value">>

Errorf(msg, err) == <<msg>> \o err

Is(err, target) == IsIn(err, target[1])

(***************************************************************************)
(* The external primitives.                                                *)
(*                                                                         *)
(* crypto/rand: one read of n bytes either fails or fills the buffer; the  *)
(* blocks the source can supply are the RandomBlock(k, n).                 *)
(*                                                                         *)
(* golang.org/x/crypto/argon2.IDKey is Argon2id, version 0x13, with no    *)
(* secret and no associated data.  It panics when time < 1 or threads < 1, *)
(* and for keyLen = 0 (its final BLAKE2b digest cannot have size 0).       *)
(* Argon2idKeys lists the keys of Argon2id, each as <<arguments, key>>     *)
(* with arguments <<password, salt, time, memory, threads, keyLen>>, for   *)
(* the arguments the inputs of the model lead to; among them are the two   *)
(* vectors of argon2_test.go.                                              *)
(***************************************************************************)
RandomBlock(k, n) == [i \in 1..n |-> (k * 97 + i * 31) % 256]

RandomOutcomes(n) ==
    {[b |-> RandomBlock(k, n), ok |-> TRUE] : k \in 1..NumSalts}
        \cup {[b |-> <<>>, ok |-> FALSE]}

Argon2idKeys ==
    {
      << <<<<112, 97, 115, 115, 119, 111, 114, 100>>, <<115, 97, 108, 116>>,
        8, 0, 1, 4>>, <<9, 79, 2, 243>> >>,
      << <<<<115, 101, 99, 114, 101, 116>>, <<115, 97, 108, 116>>, 8, 0, 1,
        4>>, <<174, 237, 36, 37>> >>,
      << <<<<119, 114, 111, 110, 103>>, <<115, 97, 108, 116>>, 8, 0, 1, 4>>,
        <<127, 67, 18, 238>> >>,
      << <<<<112, 97, 115, 115, 119, 111, 114, 100>>, <<115, 97, 108, 116>>,
        8, 1, 1, 1>>, <<252>> >>,
      << <<<<115, 101, 99, 114, 101, 116>>, <<115, 97, 108, 116>>, 8, 1, 1,
        1>>, <<94>> >>,
      << <<<<119, 114, 111, 110, 103>>, <<115, 97, 108, 116>>, 8, 1, 1, 1>>,
        <<69>> >>,
      << <<<<112, 97, 115, 115, 119, 111, 114, 100>>, <<115, 97, 108, 116>>,
        8, 1, 1, 3>>, <<53, 239, 254>> >>,
      << <<<<115, 101, 99, 114, 101, 116>>, <<115, 97, 108, 116>>, 8, 1, 1,
        3>>, <<68, 104, 74>> >>,
      << <<<<119, 114, 111, 110, 103>>, <<115, 97, 108, 116>>, 8, 1, 1, 3>>,
        <<106, 157, 80>> >>,
      << <<<<112, 97, 115, 115, 119, 111, 114, 100>>, <<115, 97, 108, 116>>,
        8, 1, 1, 4>>, <<69, 187, 191, 146>> >>,
      << <<<<115, 101, 99, 114, 101, 116>>, <<115, 97, 108, 116>>, 8, 1, 1,
        4>>, <<122, 134, 240, 161>> >>,
      << <<<<119, 114, 111, 110, 103>>, <<115, 97, 108, 116>>, 8, 1, 1, 4>>,
        <<252, 70, 103, 75>> >>,
      << <<<<112, 97, 115, 115, 119, 111, 114, 100>>, <<66, 97, 128, 159,
        190, 221, 252, 27, 58, 89, 120, 151, 182, 213, 244, 19>>, 65536, 3,
        2, 32>>, <<109, 6, 142, 123, 156, 250, 72, 168, 33, 58, 32, 89, 116,
        29, 157, 191, 10, 169, 201, 64, 30, 253, 193, 113, 38, 104, 123,
        253, 94, 122, 61, 148>> >>,
      << <<<<115, 101, 99, 114, 101, 116>>, <<66, 97, 128, 159, 190, 221,
        252, 27, 58, 89, 120, 151, 182, 213, 244, 19>>, 65536, 3, 2, 32>>,
        <<47, 114, 174, 198, 139, 89, 71, 225, 3, 69, 48, 163, 103, 67, 36,
        6, 179, 177, 27, 203, 192, 92, 231, 132, 217, 103, 167, 78, 224,
        241, 237, 196>> >>,
      << <<<<119, 114, 111, 110, 103>>, <<66, 97, 128, 159, 190, 221, 252,
        27, 58, 89, 120, 151, 182, 213, 244, 19>>, 65536, 3, 2, 32>>, <<3,
        78, 126, 151, 197, 227, 140, 189, 68, 81, 77, 34, 176, 220, 55, 31,
        150, 1, 42, 177, 118, 55, 2, 89, 231, 34, 115, 5, 16, 226, 83, 59>>
        >>,
      << <<<<112, 97, 115, 115, 119, 111, 114, 100>>, <<88, 57, 66, 81, 77,
        121, 90, 81, 120, 56, 83, 70, 119, 119, 122, 56>>, 65536, 3, 2,
        32>>, <<214, 0, 108, 26, 54, 144, 75, 223, 142, 27, 31, 244, 60,
        109, 15, 64, 90, 235, 48, 195, 83, 205, 195, 208, 60, 201, 221, 214,
        216, 61, 210, 65>> >>,
      << <<<<115, 101, 99, 114, 101, 116>>, <<88, 57, 66, 81, 77, 121, 90,
        81, 120, 56, 83, 70, 119, 119, 122, 56>>, 65536, 3, 2, 32>>, <<100,
        166, 230, 34, 206, 180, 95, 161, 188, 44, 107, 181, 165, 207, 61, 5,
        77, 192, 119, 105, 167, 5, 210, 122, 90, 244, 209, 89, 85, 139, 224,
        68>> >>,
      << <<<<119, 114, 111, 110, 103>>, <<88, 57, 66, 81, 77, 121, 90, 81,
        120, 56, 83, 70, 119, 119, 122, 56>>, 65536, 3, 2, 32>>, <<168, 213,
        43, 1, 157, 4, 184, 24, 75, 200, 105, 24, 154, 183, 118, 153, 113,
        72, 241, 150, 209, 152, 101, 220, 134, 37, 116, 107, 133, 218, 155,
        238>> >>,
      << <<<<112, 97, 115, 115, 119, 111, 114, 100>>, <<128, 159, 190, 221,
        252, 27, 58, 89, 120, 151, 182, 213, 244, 19, 50, 81>>, 65536, 3, 2,
        32>>, <<168, 55, 236, 198, 38, 52, 31, 242, 9, 138, 135, 222, 124,
        6, 116, 26, 95, 79, 55, 47, 110, 200, 25, 176, 154, 243, 156, 143,
        193, 238, 126, 196>> >>,
      << <<<<115, 101, 99, 114, 101, 116>>, <<128, 159, 190, 221, 252, 27,
        58, 89, 120, 151, 182, 213, 244, 19, 50, 81>>, 65536, 3, 2, 32>>,
        <<182, 228, 106, 243, 104, 116, 42, 141, 190, 199, 71, 41, 12, 140,
        147, 241, 252, 191, 158, 177, 57, 209, 147, 98, 106, 126, 112, 108,
        194, 245, 201, 201>> >>,
      << <<<<119, 114, 111, 110, 103>>, <<128, 159, 190, 221, 252, 27, 58,
        89, 120, 151, 182, 213, 244, 19, 50, 81>>, 65536, 3, 2, 32>>, <<102,
        106, 192, 255, 29, 14, 184, 7, 170, 53, 240, 206, 3, 4, 2, 82, 241,
        57, 184, 170, 173, 19, 94, 100, 174, 23, 46, 153, 175, 74, 210,
        238>> >>,
      << <<<<112, 97, 115, 115, 119, 111, 114, 100>>, <<225, 0, 31, 62, 93,
        124, 155, 186, 217, 248, 23, 54, 85, 116, 147, 178>>, 65536, 3, 2,
        32>>, <<243, 180, 171, 238, 94, 128, 205, 53, 217, 91, 53, 109, 246,
        119, 151, 73, 45, 164, 201, 170, 101, 187, 209, 164, 144, 204, 121,
        65, 26, 70, 229, 204>> >>,
      << <<<<115, 101, 99, 114, 101, 116>>, <<225, 0, 31, 62, 93, 124, 155,
        186, 217, 248, 23, 54, 85, 116, 147, 178>>, 65536, 3, 2, 32>>, <<26,
        145, 143, 34, 253, 41, 102, 221, 253, 155, 89, 13, 194, 97, 244,
        178, 16, 107, 115, 20, 47, 44, 205, 192, 227, 10, 227, 147, 163, 96,
        179, 222>> >>,
      << <<<<119, 114, 111, 110, 103>>, <<225, 0, 31, 62, 93, 124, 155, 186,
        217, 248, 23, 54, 85, 116, 147, 178>>, 65536, 3, 2, 32>>, <<118,
        210, 199, 99, 105, 4, 195, 57, 11, 249, 228, 179, 80, 102, 202, 107,
        164, 132, 50, 120, 163, 190, 208, 181, 67, 180, 168, 206, 140, 55,
        252, 98>> >>,
      << <<<<112, 97, 115, 115, 119, 111, 114, 100>>, <<115, 97, 108, 116>>,
        1, 8, 1, 1>>, <<112>> >>,
      << <<<<115, 101, 99, 114, 101, 116>>, <<115, 97, 108, 116>>, 1, 8, 1,
        1>>, <<101>> >>,
      << <<<<119, 114, 111, 110, 103>>, <<115, 97, 108, 116>>, 1, 8, 1, 1>>,
        <<97>> >>,
      << <<<<112, 97, 115, 115, 119, 111, 114, 100>>, <<115, 97, 108, 116>>,
        1, 8, 1, 3>>, <<175, 152, 25>> >>,
      << <<<<115, 101, 99, 114, 101, 116>>, <<115, 97, 108, 116>>, 1, 8, 1,
        3>>, <<230, 103, 215>> >>,
      << <<<<119, 114, 111, 110, 103>>, <<115, 97, 108, 116>>, 1, 8, 1, 3>>,
        <<199, 49, 63>> >>,
      << <<<<112, 97, 115, 115, 119, 111, 114, 100>>, <<115, 97, 108, 116>>,
        1, 8, 1, 4>>, <<87, 6, 95, 112>> >>,
      << <<<<115, 101, 99, 114, 101, 116>>, <<115, 97, 108, 116>>, 1, 8, 1,
        4>>, <<95, 10, 248, 70>> >>,
      << <<<<119, 114, 111, 110, 103>>, <<115, 97, 108, 116>>, 1, 8, 1, 4>>,
        <<38, 50, 55, 115>> >>,
      << <<<<112, 97, 115, 115, 119, 111, 114, 100>>, <<>>, 3, 65536, 2,
        32>>, <<197, 6, 196, 8, 180, 174, 62, 34, 70, 214, 11, 96, 233, 186,
        225, 255, 39, 53, 251, 48, 69, 10, 32, 108, 255, 152, 132, 245, 96,
        145, 162, 172>> >>,
      << <<<<115, 101, 99, 114, 101, 116>>, <<>>, 3, 65536, 2, 32>>, <<119,
        206, 151, 122, 29, 101, 85, 47, 154, 206, 162, 53, 227, 222, 132,
        88, 172, 187, 123, 95, 212, 96, 194, 29, 43, 241, 23, 91, 128, 47,
        240, 62>> >>,
      << <<<<119, 114, 111, 110, 103>>, <<>>, 3, 65536, 2, 32>>, <<154, 238,
        219, 117, 106, 82, 171, 123, 128, 35, 204, 82, 64, 48, 41, 106, 73,
        156, 239, 247, 164, 105, 87, 66, 99, 19, 242, 146, 101, 200, 97,
        115>> >>,
      << <<<<112, 97, 115, 115, 119, 111, 114, 100>>, <<66, 97, 128, 159,
        190, 221, 252, 27, 58, 89, 120, 151, 182, 213, 244, 19>>, 3, 65536,
        2, 32>>, <<105, 149, 217, 242, 240, 245, 174, 211, 152, 41, 112,
        156, 133, 185, 19, 243, 192, 188, 253, 80, 41, 165, 162, 99, 70,
        205, 4, 3, 171, 221, 5, 45>> >>,
      << <<<<115, 101, 99, 114, 101, 116>>, <<66, 97, 128, 159, 190, 221,
        252, 27, 58, 89, 120, 151, 182, 213, 244, 19>>, 3, 65536, 2, 32>>,
        <<5, 236, 42, 150, 118, 103, 49, 174, 80, 207, 0, 203, 154, 18, 126,
        169, 59, 27, 177, 137, 176, 184, 10, 233, 122, 88, 21, 31, 204, 249,
        23, 230>> >>,
      << <<<<119, 114, 111, 110, 103>>, <<66, 97, 128, 159, 190, 221, 252,
        27, 58, 89, 120, 151, 182, 213, 244, 19>>, 3, 65536, 2, 32>>, <<138,
        202, 126, 145, 80, 172, 193, 230, 89, 64, 61, 79, 41, 20, 129, 18,
        161, 169, 150, 8, 155, 213, 107, 136, 149, 148, 186, 37, 191, 115,
        46, 107>> >>,
      << <<<<112, 97, 115, 115, 119, 111, 114, 100>>, <<88, 57, 66, 81, 77,
        121, 90, 81, 120, 56, 83, 70, 119, 119, 122, 56>>, 3, 65536, 2,
        32>>, <<210, 114, 105, 53, 71, 196, 171, 113, 11, 205, 234, 6, 193,
        199, 126, 112, 110, 30, 175, 220, 46, 220, 56, 24, 8, 18, 91, 219,
        13, 231, 156, 143>> >>,
      << <<<<115, 101, 99, 114, 101, 116>>, <<88, 57, 66, 81, 77, 121, 90,
        81, 120, 56, 83, 70, 119, 119, 122, 56>>, 3, 65536, 2, 32>>, <<165,
        170, 207, 91, 18, 107, 0, 145, 29, 147, 158, 219, 164, 203, 130, 11,
        249, 11, 132, 162, 85, 224, 73, 204, 111, 205, 180, 229, 35, 107,
        21, 68>> >>,
      << <<<<119, 114, 111, 110, 103>>, <<88, 57, 66, 81, 77, 121, 90, 81,
        120, 56, 83, 70, 119, 119, 122, 56>>, 3, 65536, 2, 32>>, <<122, 163,
        100, 44, 64, 67, 164, 156, 225, 175, 64, 134, 103, 42, 236, 163, 10,
        31, 103, 216, 197, 110, 79, 177, 206, 231, 136, 239, 194, 230, 64,
        109>> >>,
      << <<<<112, 97, 115, 115, 119, 111, 114, 100>>, <<115, 97, 108, 116>>,
        3, 65536, 2, 32>>, <<166, 182, 214, 24, 159, 91, 194, 42, 217, 38,
        20, 136, 253, 204, 173, 227, 212, 133, 45, 143, 210, 6, 107, 204,
        146, 27, 165, 145, 164, 149, 127, 87>> >>,
      << <<<<115, 101, 99, 114, 101, 116>>, <<115, 97, 108, 116>>, 3, 65536,
        2, 32>>, <<46, 218, 209, 203, 255, 205, 186, 176, 142, 223, 250, 88,
        51, 197, 131, 169, 25, 199, 89, 89, 233, 42, 184, 249, 165, 55, 190,
        41, 62, 97, 80, 164>> >>,
      << <<<<119, 114, 111, 110, 103>>, <<115, 97, 108, 116>>, 3, 65536, 2,
        32>>, <<131, 108, 88, 153, 187, 9, 209, 36, 114, 204, 66, 167, 244,
        3, 127, 238, 211, 241, 160, 21, 235, 179, 222, 15, 112, 63, 88, 50,
        240, 102, 149, 82>> >>,
      << <<<<112, 97, 115, 115, 119, 111, 114, 100>>, <<128, 159, 190, 221,
        252, 27, 58, 89, 120, 151, 182, 213, 244, 19, 50, 81>>, 3, 65536, 2,
        32>>, <<237, 127, 254, 246, 129, 75, 178, 208, 133, 196, 236, 77,
        117, 54, 230, 38, 200, 118, 237, 44, 234, 43, 150, 12, 95, 183, 90,
        187, 88, 105, 107, 165>> >>,
      << <<<<115, 101, 99, 114, 101, 116>>, <<128, 159, 190, 221, 252, 27,
        58, 89, 120, 151, 182, 213, 244, 19, 50, 81>>, 3, 65536, 2, 32>>,
        <<140, 77, 140, 33, 150, 110, 184, 217, 228, 119, 204, 21, 162, 199,
        190, 220, 79, 60, 239, 125, 159, 130, 118, 98, 223, 89, 160, 70, 69,
        13, 148, 25>> >>,
      << <<<<119, 114, 111, 110, 103>>, <<128, 159, 190, 221, 252, 27, 58,
        89, 120, 151, 182, 213, 244, 19, 50, 81>>, 3, 65536, 2, 32>>, <<228,
        67, 192, 140, 165, 2, 70, 56, 174, 158, 212, 151, 247, 16, 74, 146,
        192, 253, 232, 177, 153, 235, 253, 67, 5, 167, 79, 128, 245, 217, 9,
        9>> >>,
      << <<<<112, 97, 115, 115, 119, 111, 114, 100>>, <<225, 0, 31, 62, 93,
        124, 155, 186, 217, 248, 23, 54, 85, 116, 147, 178>>, 3, 65536, 2,
        32>>, <<151, 34, 243, 148, 65, 169, 138, 112, 251, 39, 215, 242, 11,
        103, 20, 175, 227, 199, 143, 171, 83, 222, 220, 25, 152, 234, 181,
        124, 21, 137, 104, 28>> >>,
      << <<<<115, 101, 99, 114, 101, 116>>, <<225, 0, 31, 62, 93, 124, 155,
        186, 217, 248, 23, 54, 85, 116, 147, 178>>, 3, 65536, 2, 32>>, <<12,
        4, 6, 209, 100, 94, 161, 186, 15, 202, 213, 127, 246, 207, 255, 154,
        192, 110, 35, 95, 114, 83, 226, 128, 48, 176, 11, 179, 210, 235, 27,
        213>> >>,
      << <<<<119, 114, 111, 110, 103>>, <<225, 0, 31, 62, 93, 124, 155, 186,
        217, 248, 23, 54, 85, 116, 147, 178>>, 3, 65536, 2, 32>>, <<215, 87,
        118, 52, 84, 250, 177, 150, 247, 240, 230, 167, 119, 187, 153, 81,
        241, 11, 64, 172, 151, 116, 103, 220, 36, 99, 105, 109, 247, 164,
        212, 122>> >> }

\* Argon2id as a function of <<password, salt, time, memory, threads, keyLen>>
Argon2id ==
    [k \in {e[1] : e \in Argon2idKeys} |->
        (CHOOSE e \in Argon2idKeys : e[1] = k)[2]]

IDKey(password, salt, time, mem, threads, keyLen) ==
    IF time < 1 \/ threads < 1 \/ keyLen < 1
    THEN [panic |-> TRUE, key |-> <<>>]
    ELSE [panic |-> FALSE,
          key   |-> Argon2id[<<password, salt, time, mem, threads, keyLen>>]]

\* crypto/subtle.ConstantTimeCompare: 0 at once when the lengths differ;
\* otherwise every byte pair is XORed, the XORs are ORed into one byte v,
\* and the result is 1 exactly when v is 0
Bit(x, k) == (x \div (2 ^ k)) % 2

Pack(bit(_)) ==
    bit(0) + 2 * bit(1) + 4 * bit(2) + 8 * bit(3)
        + 16 * bit(4) + 32 * bit(5) + 64 * bit(6) + 128 * bit(7)

Xor(x, y) == Pack(LAMBDA k : IF Bit(x, k) = Bit(y, k) THEN 0 ELSE 1)

OrAll(S) == Pack(LAMBDA k : IF \E e \in S : Bit(e, k) = 1 THEN 1 ELSE 0)

ConstantTimeCompare(x, y) ==
    IF Len(x) # Len(y) THEN 0
    ELSE LET v == OrAll({Xor(x[i], y[i]) : i \in 1..Len(x)})
         IN  IF v = 0 THEN 1 ELSE 0

(***************************************************************************)
(* type Argon2 and its methods.                                            *)
(***************************************************************************)
\* Argon2{}: the zero value
Zero ==
    [iterations  |-> 0,
     memory      |-> 0,
     parallelism |-> 0,
     keyLength   |-> 0,
     salt        |-> NilSlice,
     hashed      |-> NilSlice,
     isValid     |-> FALSE]

\* Bytes(n) on an outcome of the random source: [b, err]
Bytes(n, rnd) ==
    IF ~rnd.ok
    THEN [b |-> NilSlice,
          err |-> Errorf("failed to generate random bytes", <<"rand.Read">>)]
    ELSE [b |-> Slice(rnd.b), err |-> NoError]

\* a slip: the error of Bytes dropped
makeSaltUnchecked(x, rnd) ==
    IF ~x.salt.isNil THEN [a |-> x, err |-> NoError, reads |-> 0]
    ELSE Let(Bytes(saltLength, rnd), LAMBDA r :
           [a |-> [x EXCEPT !.salt = r.b], err |-> NoError, reads |-> 1])

\* (a *Argon2) makeSalt: [a, err, reads], reads counting the calls of Bytes
makeSalt(x, rnd) ==
    IF ~x.salt.isNil THEN [a |-> x, err |-> NoError, reads |-> 0]
    ELSE Let(Bytes(saltLength, rnd), LAMBDA r :
           IF r.err # NoError THEN [a |-> x, err |-> r.err, reads |-> 1]
           ELSE [a |-> [x EXCEPT !.salt = r.b], err |-> NoError, reads |-> 1])

\* (a *Argon2) makeHash: [a, panic]
makeHash(x, toHash) ==
    Let(IDKey(BytesOf(toHash), x.salt.b, x.iterations, x.memory,
              x.parallelism, x.keyLength),
        LAMBDA r : [a |-> [x EXCEPT !.hashed = Slice(r.key)], panic |-> r.panic])

\* a slip: the memory and the time cost written in each other's place
StringSwapped(x) ==
    IF ~x.isValid THEN <<>>
    ELSE <<"$", "a", "r", "g", "o", "n", "2", "i", "d", "$", "v", "=">>
         \o FormatUint(Version)
         \o <<"$", "m", "=">> \o FormatUint(x.iterations)
         \o <<",", "t", "=">> \o FormatUint(x.memory)
         \o <<",", "p", "=">> \o FormatUint(x.parallelism)
         \o <<"$">> \o EncodeToString(x.salt.b)
         \o <<"$">> \o EncodeToString(x.hashed.b)

\* (a Argon2) String
String(x) ==
    IF ~x.isValid THEN <<>>
    ELSE <<"$", "a", "r", "g", "o", "n", "2", "i", "d", "$", "v", "=">>
         \o FormatUint(Version)
         \o <<"$", "m", "=">> \o FormatUint(x.memory)
         \o <<",", "t", "=">> \o FormatUint(x.iterations)
         \o <<",", "p", "=">> \o FormatUint(x.parallelism)
         \o <<"$">> \o EncodeToString(x.salt.b)
         \o <<"$">> \o EncodeToString(x.hashed.b)

\* (a Argon2) Value: [null, s, err]; null says the driver.Value is nil
Value(x) ==
    IF ~x.isValid THEN [s |-> <<>>, err |-> NoError, null |-> TRUE]
    ELSE [s |-> String(x), err |-> NoError, null |-> FALSE]

\* a slip: the candidate hashed under the package defaults
CompareWithDefaults(x, toCompare) ==
    Let(makeHash([iterations  |-> iterations,
                  memory      |-> memory,
                  parallelism |-> parallelism,
                  keyLength   |-> keyLength,
                  salt        |-> x.salt,
                  hashed      |-> NilSlice,
                  isValid     |-> TRUE], toCompare),
        LAMBDA b :
          IF b.panic THEN [ok |-> FALSE, panic |-> TRUE]
          ELSE [ok    |-> ConstantTimeCompare(x.hashed.b, b.a.hashed.b) = 1,
                panic |-> FALSE])

\* (a Argon2) Compare: [panic, ok]
Compare(x, toCompare) ==
    Let(makeHash([iterations  |-> x.iterations,
                  memory      |-> x.memory,
                  parallelism |-> x.parallelism,
                  keyLength   |-> x.keyLength,
                  salt        |-> x.salt,
                  hashed      |-> NilSlice,
                  isValid     |-> TRUE], toCompare),
        LAMBDA b :
          IF b.panic THEN [ok |-> FALSE, panic |-> TRUE]
          ELSE [ok    |-> ConstantTimeCompare(x.hashed.b, b.a.hashed.b) = 1,
                panic |-> FALSE])

\* New: [val, err, panic, reads, kdf], kdf counting the calls of makeHash
New(toHash, rnd) ==
    Let(makeSalt([iterations  |-> iterations,
                  memory      |-> memory,
                  parallelism |-> parallelism,
                  keyLength   |-> keyLength,
                  salt        |-> NilSlice,
                  hashed      |-> NilSlice,
                  isValid     |-> TRUE], rnd),
        LAMBDA s :
          IF s.err # NoError
          THEN [val |-> Zero, err |-> s.err, panic |-> FALSE,
                reads |-> s.reads, kdf |-> 0]
          ELSE Let(makeHash(s.a, toHash), LAMBDA m :
                 [val |-> m.a, err |-> NoError, panic |-> m.panic,
                  reads |-> s.reads, kdf |-> 1]))

\* MustNew: [val, err, panic, reads, kdf]; it panics with the error of New
\* wrapped, and err is then the value of the panic
MustNew(toHash, rnd) ==
    Let(New(toHash, rnd), LAMBDA r :
      IF r.err # NoError
      THEN [val |-> Zero, err |-> Errorf("failed to create", r.err),
            panic |-> TRUE, reads |-> r.reads, kdf |-> r.kdf]
      ELSE r)

\* fmt.Sscanf(field, "v=%d", &version): [ok, version]
ScanVersion(field) ==
    Let(ScanField(field, 1, <<"v", "=">>, TRUE, MaxInt, MinIntMagnitude),
        LAMBDA n : [ok |-> n.ok, version |-> n.val])

\* fmt.Sscanf(field, "m=%d,t=%d,p=%d", &m, &i, &p) with m, i uint32 and
\* p uint8: [ok, m, i, p]
ScanOptions(field) ==
    Let(ScanField(field, 1, <<"m", "=">>, FALSE, MaxUint32, MaxUint32),
        LAMBDA m :
    Let(ScanField(field, m.next, <<",", "t", "=">>, FALSE, MaxUint32, MaxUint32),
        LAMBDA i :
    Let(ScanField(field, i.next, <<",", "p", "=">>, FALSE, MaxUint8, MaxUint8),
        LAMBDA p :
          IF ~p.ok THEN [i |-> 0, ok |-> FALSE, p |-> 0, m |-> 0]
          ELSE [i |-> i.val, ok |-> TRUE, p |-> p.val, m |-> m.val])))

\* what NewByEncoded returns with an error
Failed(err) == [val |-> Zero, err |-> err]

\* a slip: only too few parts are refused
TooFewParts(vals) == Len(vals) < encodedSlicesCount

\* len(vals) != encodedSlicesCount
WrongCount(vals) == Len(vals) # encodedSlicesCount

\* a slip: only older versions are refused
OlderVersion(version) == version < Version

\* version != argon2.Version
Incompatible(version) == version # Version

\* NewByEncoded: [val, err]
NewByEncoded(encoded) ==
    Let(Split(encoded, "$"), LAMBDA vals :
      IF WrongCount(vals) THEN Failed(ErrInvalidEncodedHash)
      ELSE Let(ScanVersion(vals[3]), LAMBDA v :
        IF ~v.ok THEN Failed(Errorf("failed to decode", <<"fmt.Sscanf">>))
        ELSE IF Incompatible(v.version) THEN Failed(ErrIncompatibleVersion)
        ELSE Let(DecodeString(vals[5]), LAMBDA salt :
          IF ~salt.ok
          THEN Failed(Errorf("failed to decode salt value",
                             <<"base64.CorruptInputError">>))
          ELSE Let(DecodeString(vals[6]), LAMBDA hashed :
            IF ~hashed.ok
            THEN Failed(Errorf("failed to decode hashed value",
                               <<"base64.CorruptInputError">>))
            ELSE Let(ScanOptions(vals[4]), LAMBDA o :
              IF ~o.ok
              THEN Failed(Errorf("failed to decode hash options", <<"fmt.Sscanf">>))
              ELSE [val |-> [iterations  |-> o.i,
                             memory      |-> o.m,
                             parallelism |-> o.p,
                             keyLength   |-> Len(hashed.b),
                             salt        |-> Slice(salt.b),
                             hashed      |-> Slice(hashed.b),
                             isValid     |-> TRUE],
                    err |-> NoError])))))

\* a slip: the decoded value dropped instead of assigned to *a
ScanDiscards(x, src) ==
    IF src.kind = "nil" THEN [a |-> [x EXCEPT !.isValid = FALSE], err |-> NoError]
    ELSE IF src.kind # "string"
    THEN [a |-> x, err |-> Errorf("expected a string", ErrScan)]
    ELSE Let(NewByEncoded(src.s), LAMBDA r :
           IF r.err # NoError
           THEN [a |-> x,
                 err |-> Errorf("cannot scan due to decode error", r.err)]
           ELSE [a |-> x, err |-> NoError])

\* a slip: a nil src returns at once
ScanIgnoresNil(x, src) ==
    IF src.kind = "nil" THEN [a |-> x, err |-> NoError]
    ELSE IF src.kind # "string"
    THEN [a |-> x, err |-> Errorf("expected a string", ErrScan)]
    ELSE Let(NewByEncoded(src.s), LAMBDA r :
           IF r.err # NoError
           THEN [a |-> r.val,
                 err |-> Errorf("cannot scan due to decode error", r.err)]
           ELSE [a |-> r.val, err |-> NoError])

\* a slip: *a assigned only when the decoding succeeds
ScanKeepsOnError(x, src) ==
    IF src.kind = "nil" THEN [a |-> [x EXCEPT !.isValid = FALSE], err |-> NoError]
    ELSE IF src.kind # "string"
    THEN [a |-> x, err |-> Errorf("expected a string", ErrScan)]
    ELSE Let(NewByEncoded(src.s), LAMBDA r :
           IF r.err # NoError
           THEN [a |-> x,
                 err |-> Errorf("cannot scan due to decode error", r.err)]
           ELSE [a |-> r.val, err |-> NoError])

\* (a *Argon2) Scan, src being nil, a string, or a value of another type:
\* [a, err]
Scan(x, src) ==
    IF src.kind = "nil" THEN [a |-> [x EXCEPT !.isValid = FALSE], err |-> NoError]
    ELSE IF src.kind # "string"
    THEN [a |-> x, err |-> Errorf("expected a string", ErrScan)]
    ELSE Let(NewByEncoded(src.s), LAMBDA r :
           IF r.err # NoError
           THEN [a |-> r.val,
                 err |-> Errorf("cannot scan due to decode error", r.err)]
           ELSE [a |-> r.val, err |-> NoError])

(***************************************************************************)
(* The inputs of the model.                                                *)
(***************************************************************************)
Plaintexts ==
    << <<"p", "a", "s", "s", "w", "o", "r", "d">>,
       <<"s", "e", "c", "r", "e", "t">>,
       <<"w", "r", "o", "n", "g">>,
       <<>> >>

Plain == {Plaintexts[k] : k \in 1..NumPlain}

RECURSIVE Join(_, _)
Join(parts, sep) ==
    IF Len(parts) = 1 THEN parts[1]
    ELSE parts[1] \o <<sep>> \o Join(Tail(parts), sep)

\* a hash stored earlier: plaintext P under salt "salt", costs t, m, p and
\* a key of n bytes
Stored(P, t, m, p, n) ==
    LET salt == BytesOf(<<"s", "a", "l", "t">>)
    IN  [iterations  |-> t,
         memory      |-> m,
         parallelism |-> p,
         keyLength   |-> n,
         salt        |-> Slice(salt),
         hashed      |-> Slice(IDKey(BytesOf(P), salt, t, m, p, n).key),
         isValid     |-> TRUE]

FAlg == <<"a", "r", "g", "o", "n", "2", "i", "d">>

FV19 == <<"v", "=", "1", "9">>

FOpts == <<"m", "=", "8", ",", "t", "=", "1", ",", "p", "=", "1">>

FSalt == <<"c", "2", "F", "s", "d", "A">>

FHash == <<"a", "G", "F", "z", "a", "A">>

\* encodings NewByEncoded accepts although String never writes them
Unusual ==
    { Join(<< <<>>, FAlg, FV19, <<"m", "=", "8", ",", "t", "=", "0", ",", "p", "=", "1">>,
              FSalt, FHash >>, "$"),
      Join(<< <<>>, FAlg, FV19, <<"m", "=", "8", ",", "t", "=", "1", ",", "p", "=", "0">>,
              FSalt, FHash >>, "$"),
      Join(<< <<>>, FAlg, FV19, FOpts, FSalt, <<>> >>, "$"),
      Join(<< <<>>, FAlg, <<"v", "=", "", "\f", "1", "9">>,
              <<"m", "=", " ", "", "8", ",", "t", "=", "\r", " ", "1",
                ",", "p", "=", "\t", "1">>,
              FSalt, FHash >>, "$"),
      Join(<< <<"x">>, <<"y">>, <<"v", "=", "+", "0", "1", "9", "x">>,
              <<"m", "=", "0", "8", ",", "t", "=", " ", "1", ",", "p", "=", "1", "z">>,
              <<"c", "2", "F", "s", "d", "B">>, <<"Q", "R">> >>, "$") }

\* encodings NewByEncoded rejects
Malformed ==
    { <<>>,
      Join(<< <<>>, FAlg, FV19,
              <<"m", "=", "6", "5", "5", "3", "6", ",", "t", "=", "3", ",", "p", "=", "2">>,
              <<"s", "a", "l", "t">> >>, "$"),
      Join(<< <<>>, FAlg, FV19, FOpts, FSalt, FHash, <<"x">> >>, "$"),
      Join(<< <<>>, FAlg, <<"v", "=", "1">>, FOpts, FSalt, FHash >>, "$"),
      Join(<< <<>>, FAlg, <<"v", "=", "-", "1">>, FOpts, FSalt, FHash >>, "$"),
      Join(<< <<>>, FAlg, <<"v", "=", "2", "0">>, FOpts, FSalt, FHash >>, "$"),
      Join(<< <<>>, FAlg,
              <<"v", "=", "9", "9", "9", "9", "9", "9", "9", "9", "9", "9",
                "9", "9", "9", "9", "9", "9", "9", "9", "9", "9">>,
              FOpts, FSalt, FHash >>, "$"),
      Join(<< <<>>, FAlg, <<"1", "9">>, FOpts, FSalt, FHash >>, "$"),
      Join(<< <<>>, FAlg, <<"v", "=", "\n", "1", "9">>, FOpts, FSalt, FHash >>, "$"),
      Join(<< <<>>, FAlg, FV19,
              <<"m", "=", "8", ",", "t", "=", "\r", "\n", "1", ",", "p", "=", "1">>,
              FSalt, FHash >>, "$"),
      Join(<< <<>>, FAlg, FV19, FOpts, <<"c", "2", "F", "!">>, FHash >>, "$"),
      Join(<< <<>>, FAlg, FV19, FOpts, FSalt, <<"Q">> >>, "$"),
      Join(<< <<>>, FAlg, FV19, <<"m", "=", "8", ",", "t", "=", "x", ",", "p", "=", "1">>,
              FSalt, FHash >>, "$"),
      Join(<< <<>>, FAlg, FV19,
              <<"m", "=", "8", ",", "t", "=", "1", ",", "p", "=", "2", "5", "6">>,
              FSalt, FHash >>, "$") }

\* the encoded hashes of argon2_test.go, of "password" and of "secret"
TestVectors ==
    << <<"$", "a", "r", "g", "o", "n", "2", "i", "d", "$", "v", "=", "1", "9",
          "$", "m", "=", "6", "5", "5", "3", "6", ",", "t", "=", "3", ",", "p",
          "=", "2", "$", "W", "D", "l", "C", "U", "U", "1", "5", "W", "l", "F",
          "4", "O", "F", "N", "G", "d", "3", "d", "6", "O", "A", "$", "0", "n",
          "J", "p", "N", "U", "f", "E", "q", "3", "E", "L", "z", "e", "o", "G",
          "w", "c", "d", "+", "c", "G", "4", "e", "r", "9", "w", "u", "3", "D",
          "g", "Y", "C", "B", "J", "b", "2", "w", "3", "n", "n", "I", "8">>,
       <<"$", "a", "r", "g", "o", "n", "2", "i", "d", "$", "v", "=", "1", "9",
          "$", "m", "=", "6", "5", "5", "3", "6", ",", "t", "=", "3", ",", "p",
          "=", "2", "$", "W", "D", "l", "C", "U", "U", "1", "5", "W", "l", "F",
          "4", "O", "F", "N", "G", "d", "3", "d", "6", "O", "A", "$", "p", "a",
          "r", "P", "W", "x", "J", "r", "A", "J", "E", "d", "k", "5", "7", "b",
          "p", "M", "u", "C", "C", "/", "k", "L", "h", "K", "J", "V", "4", "E",
          "n", "M", "b", "8", "2", "0", "5", "S", "N", "r", "F", "U", "Q">> >>

EncodedInputs ==
    {String(Stored(P, 1, 8, 1, 3)) : P \in Plain}
        \cup {TestVectors[k] : k \in 1..2}
        \cup Unusual \cup Malformed

\* what a driver hands to Scan: nil, a string, or a value of another type
ScanSources ==
    {[s |-> <<>>, kind |-> "nil"], [s |-> <<>>, kind |-> "other"]}
        \cup {[s |-> e, kind |-> "string"] : e \in EncodedInputs}

(***************************************************************************)
(* The state.  a is the caller's Argon2 variable: New and NewByEncoded are *)
(* assigned to it, Scan is called on its address, String, Value and        *)
(* Compare are called on it.  col is a database column: a driver writes    *)
(* what Value returns into it and hands its content to Scan.  last is the  *)
(* latest call with its arguments and results.  origin is what the caller  *)
(* knows about a: the plaintext it was made from by New, and whether a has *)
(* since been replaced by NewByEncoded of its own String.                  *)
(***************************************************************************)
Blank ==
    [ok       |-> FALSE,    \* Compare returned true
     err      |-> NoError,
     panic    |-> FALSE,
     rnd      |-> <<>>,     \* the bytes the random source supplied
     reads    |-> 0,        \* reads of the random source during the call
     null     |-> FALSE,    \* Value returned nil
     kdf      |-> 0,        \* calls of the key derivation during the call
     kind     |-> "none",   \* Scan: the kind of src
     op       |-> "none",   \* the function or method called
     in       |-> <<>>,     \* its string argument
     from     |-> "none",   \* where the argument came from
     wasValid |-> FALSE,    \* a.isValid before the call
     out      |-> <<>>]     \* the string returned

NoOrigin == [known |-> FALSE, plain |-> <<>>, trip |-> FALSE]

\* the column: null or the text s, written from the value of
NullColumn == [s |-> <<>>, null |-> TRUE, of |-> Zero]

Init ==
    /\ a = Zero
    /\ col = NullColumn
    /\ last = Blank
    /\ origin = NoOrigin

\* a, err = New(P)
DoNew ==
    \E P \in Plain, rnd \in RandomOutcomes(saltLength) :
        \E r \in {New(P, rnd)} :
            /\ a' = IF r.panic THEN a ELSE r.val
            /\ last' = [Blank EXCEPT !.op = "New", !.in = P, !.from = "input",
                                     !.wasValid = a.isValid,
                                     !.err = r.err, !.panic = r.panic,
                                     !.reads = r.reads, !.kdf = r.kdf,
                                     !.rnd = rnd.b]
            /\ origin' = IF r.err = NoError /\ ~r.panic
                         THEN [known |-> TRUE, plain |-> P, trip |-> FALSE]
                         ELSE NoOrigin
            /\ UNCHANGED col

\* a = MustNew(P): a panic leaves the assignment undone
DoMustNew ==
    \E P \in Plain, rnd \in RandomOutcomes(saltLength) :
        \E r \in {MustNew(P, rnd)} :
            /\ a' = IF r.panic THEN a ELSE r.val
            /\ last' = [Blank EXCEPT !.op = "MustNew", !.in = P,
                                     !.from = "input", !.wasValid = a.isValid,
                                     !.err = r.err, !.panic = r.panic,
                                     !.reads = r.reads, !.kdf = r.kdf,
                                     !.rnd = rnd.b]
            /\ origin' = IF r.panic THEN origin
                         ELSE [known |-> TRUE, plain |-> P, trip |-> FALSE]
            /\ UNCHANGED col

\* a, err = NewByEncoded(s) for a string s from outside
DoNewByEncoded ==
    \E s \in EncodedInputs :
        \E r \in {NewByEncoded(s)} :
            /\ a' = r.val
            /\ last' = [Blank EXCEPT !.op = "NewByEncoded", !.in = s,
                                     !.from = "input", !.wasValid = a.isValid,
                                     !.err = r.err]
            /\ origin' = NoOrigin
            /\ UNCHANGED col

\* a, err = NewByEncoded(s) for the string s that a.String() just returned
DoNewByEncodedRendered ==
    /\ last.op = "String"
    /\ \E r \in {NewByEncoded(last.out)} :
           /\ a' = r.val
           /\ last' = [Blank EXCEPT !.op = "NewByEncoded", !.in = last.out,
                                    !.from = "String", !.wasValid = a.isValid,
                                    !.err = r.err]
           /\ origin' = IF origin.known
                        THEN [origin EXCEPT !.trip = TRUE]
                        ELSE NoOrigin
    /\ UNCHANGED col

\* a.Scan(src) for a value src from outside
DoScan ==
    \E src \in ScanSources :
        \E r \in {Scan(a, src)} :
            /\ a' = r.a
            /\ last' = [Blank EXCEPT !.op = "Scan", !.in = src.s,
                                     !.kind = src.kind, !.from = "input",
                                     !.wasValid = a.isValid, !.err = r.err]
            /\ origin' = NoOrigin
            /\ UNCHANGED col

\* a.Scan(src) for the content src of the column
DoScanColumn ==
    \E src \in {IF col.null THEN [s |-> <<>>, kind |-> "nil"]
                ELSE [s |-> col.s, kind |-> "string"]} :
      \E r \in {Scan(a, src)} :
        /\ a' = r.a
        /\ last' = [Blank EXCEPT !.op = "Scan", !.in = src.s,
                                 !.kind = src.kind, !.from = "column",
                                 !.wasValid = a.isValid, !.err = r.err]
        /\ origin' = NoOrigin
        /\ UNCHANGED col

\* a.Value(), the driver writing the result into the column
DoValue ==
    \E r \in {Value(a)} :
        /\ last' = [Blank EXCEPT !.op = "Value", !.wasValid = a.isValid,
                                 !.err = r.err, !.out = r.s, !.null = r.null]
        /\ col' = IF r.err = NoError
                  THEN [s |-> r.s, null |-> r.null, of |-> a]
                  ELSE col
        /\ UNCHANGED <<a, origin>>

\* a.String()
DoString ==
    /\ last' = [Blank EXCEPT !.op = "String", !.wasValid = a.isValid,
                             !.out = String(a)]
    /\ UNCHANGED <<a, col, origin>>

\* a.Compare(c)
DoCompare ==
    \E c \in Plain :
        \E r \in {Compare(a, c)} :
            /\ last' = [Blank EXCEPT !.op = "Compare", !.in = c,
                                     !.from = "input", !.wasValid = a.isValid,
                                     !.ok = r.ok, !.panic = r.panic, !.kdf = 1]
            /\ UNCHANGED <<a, col, origin>>

Next ==
    \/ DoNew
    \/ DoMustNew
    \/ DoNewByEncoded
    \/ DoNewByEncodedRendered
    \/ DoScan
    \/ DoScanColumn
    \/ DoValue
    \/ DoString
    \/ DoCompare

Spec == Init /\ [][Next]_vars

(***************************************************************************)
(* The properties.                                                         *)
(***************************************************************************)
\* the key the external derivation gives for candidate c under the salt
\* and the parameters held by x
Derived(x, c) ==
    IDKey(BytesOf(c), x.salt.b, x.iterations, x.memory, x.parallelism, x.keyLength)

\* the number of parts the separator "$" cuts s into
Parts(s) == Cardinality({i \in 1..Len(s) : s[i] = "$"}) + 1

\* the third part of the string last parsed, its version field
VField == Split(last.in, "$")[3]

VSigned == Len(VField) >= 3 /\ VField[3] \in {"+", "-"}

VDigits ==
    LET from == IF VSigned THEN 4 ELSE 3
    IN  SubSeq(VField, from, DigitsEnd(VField, from) - 1)

\* the version field reads v=<n>
VReads ==
    /\ Len(VField) >= 3
    /\ SubSeq(VField, 1, 2) = <<"v", "=">>
    /\ VDigits # <<>>

\* the n it reads is 19
VIs19 == ~(VSigned /\ VField[3] = "-") /\ StripZeros(VDigits) = <<"1", "9">>

\* the n it reads is a value of the type int (64 bits)
VInRange ==
    FitsIn(VDigits, IF VSigned /\ VField[3] = "-" THEN MinIntMagnitude ELSE MaxInt)

\* C1: a value made by New from a plaintext P and then replaced by
\* NewByEncoded of its own String was parsed without error, and its
\* Compare(P) returns true.
RoundTrip ==
    (origin.known /\ origin.trip) =>
        /\ last.op = "NewByEncoded" => (last.err = NoError /\ a.isValid)
        /\ (last.op = "Compare" /\ last.in = origin.plain) =>
               (last.ok /\ ~last.panic)

RoundTripWitness ==
    /\ origin.known /\ origin.trip
    /\ last.op = "Compare" /\ last.in = origin.plain /\ last.ok

\* C2: Compare(c) returns true exactly when the derivation of c under the
\* receiver's own salt, iterations, memory, parallelism and keyLength is
\* defined and gives the receiver's hashed bytes.
CompareUsesOwnParameters ==
    last.op = "Compare" =>
        (last.ok <=> (~Derived(a, last.in).panic
                      /\ ~a.hashed.isNil
                      /\ Derived(a, last.in).key = a.hashed.b))

\* a parsed value with costs and key length other than the defaults
\* matches its plaintext
CompareUsesOwnParametersWitness ==
    /\ last.op = "Compare" /\ last.ok
    /\ a.iterations # iterations /\ a.memory # memory
    /\ a.parallelism # parallelism /\ a.keyLength # keyLength

\* C3: Compare never fails: every call returns a boolean.
CompareNeverFails == last.op = "Compare" => ~last.panic

\* C4: NewByEncoded returns ErrInvalidEncodedHash and the zero value when
\* "$" cuts the string into a number of parts other than 6, and never
\* returns ErrInvalidEncodedHash when it cuts it into 6.
ParseStrictness ==
    last.op = "NewByEncoded" =>
        /\ Parts(last.in) # 6 => (last.err = ErrInvalidEncodedHash /\ a = Zero)
        /\ Parts(last.in) = 6 => ~Is(last.err, ErrInvalidEncodedHash)

ParseStrictnessWitness ==
    /\ last.op = "NewByEncoded" /\ Parts(last.in) > 6
    /\ last.err = ErrInvalidEncodedHash

\* C5 as claimed: every string of 6 parts whose version field reads v=<n>
\* with n other than 19 fails with ErrIncompatibleVersion.
VersionRejectionForEveryN ==
    (last.op = "NewByEncoded" /\ Parts(last.in) = 6 /\ VReads /\ ~VIs19) =>
        (last.err = ErrIncompatibleVersion /\ a = Zero)

\* C5 amended: such a string is never parsed (an error and the zero value
\* are returned); the error is ErrIncompatibleVersion when n is a value of
\* the type int, and the decode error of Sscanf when n is out of its range.
VersionRejection ==
    (last.op = "NewByEncoded" /\ Parts(last.in) = 6 /\ VReads /\ ~VIs19) =>
        /\ last.err # NoError /\ a = Zero
        /\ ~Is(last.err, ErrInvalidEncodedHash)
        /\ VInRange => last.err = ErrIncompatibleVersion
        /\ ~VInRange => last.err = Errorf("failed to decode", <<"fmt.Sscanf">>)

\* the version 20 refused although every other field is well-formed
VersionRejectionWitness ==
    /\ last.op = "NewByEncoded" /\ Parts(last.in) = 6 /\ VReads /\ ~VIs19
    /\ VDigits = <<"2", "0">>
    /\ last.err = ErrIncompatibleVersion
    /\ NewByEncoded(Join(<< <<>>, FAlg, FV19, FOpts, FSalt, FHash >>, "$")).err = NoError
    /\ SubSeq(Split(last.in, "$"), 4, 6) = <<FOpts, FSalt, FHash>>

\* C6: Value on a valid value returns a text and no error; Scan of the
\* text a valid value H wrote into the column returns no error, whatever
\* the receiver held, and leaves a receiver whose String is H's String.
StorageRoundTrip ==
    /\ (last.op = "Value" /\ a.isValid) =>
           (~last.null /\ last.err = NoError /\ last.out = String(a))
    /\ (last.op = "Scan" /\ last.from = "column" /\ col.of.isValid) =>
           (last.err = NoError /\ String(a) = String(col.of))

\* a receiver holding another valid value took over the column's value
StorageRoundTripWitness ==
    /\ last.op = "Scan" /\ last.from = "column" /\ col.of.isValid
    /\ last.wasValid
    /\ String(a) = String(col.of)

\* C7: an invalid value renders as "" and gives a null Value without
\* error, a valid one gives a non-empty text without error; Scan(nil)
\* returns no error and leaves the receiver invalid, its String "" and its
\* Value null.
ZeroValueBehaviour ==
    /\ (last.op = "String" /\ ~a.isValid) => last.out = <<>>
    /\ (last.op = "Value" /\ ~a.isValid) => (last.null /\ last.err = NoError)
    /\ (last.op = "Value" /\ a.isValid) =>
           (~last.null /\ last.out # <<>> /\ last.err = NoError)
    /\ (last.op = "Scan" /\ last.kind = "nil") =>
           /\ last.err = NoError
           /\ ~a.isValid
           /\ String(a) = <<>>
           /\ Value(a) = [s |-> <<>>, err |-> NoError, null |-> TRUE]

\* Scan(nil) on a receiver that held a valid hash
ZeroValueBehaviourWitness ==
    last.op = "Scan" /\ last.kind = "nil" /\ last.wasValid /\ ~a.isValid

\* C8: the value is either invalid with salt and hashed both absent, or
\* valid with both present and len(hashed) = keyLength.
SaltAndHashTogether ==
    \/ ~a.isValid /\ a.salt.isNil /\ a.hashed.isNil
    \/ /\ a.isValid /\ ~a.salt.isNil /\ ~a.hashed.isNil
       /\ Len(a.hashed.b) = a.keyLength

\* C9: New reads the random source once; when the read succeeds the value
\* is valid, its salt is the 16 bytes just read, its parameters are
\* 3 / 65536 / 2 / 32 and its hashed bytes are the derivation of the
\* plaintext under them; when the read fails New returns the error and the
\* zero value and has not run the derivation.
CreateContract ==
    last.op = "New" =>
        /\ last.reads = 1
        /\ ~last.panic
        /\ last.err = NoError =>
               /\ a.isValid
               /\ Len(last.rnd) = 16
               /\ a.salt = Slice(last.rnd)
               /\ a.iterations = 3 /\ a.memory = 65536
               /\ a.parallelism = 2 /\ a.keyLength = 32
               /\ a.hashed = Slice(IDKey(BytesOf(last.in), last.rnd, 3, 65536, 2, 32).key)
               /\ Len(a.hashed.b) = 32
               /\ last.kdf = 1
        /\ last.err # NoError => (a = Zero /\ last.kdf = 0)

CreateContractWitness ==
    last.op = "New" /\ last.err = NoError /\ a.isValid /\ last.wasValid

\* C10: a Scan that returns an error leaves the receiver as it was when
\* src is not a string, and leaves the zero value, whose String is "",
\* when src is a string NewByEncoded rejects.
FailedScanLeavesNoPartialValue ==
    [][(last'.op = "Scan" /\ last'.err # NoError) =>
          /\ last'.kind # "nil"
          /\ last'.kind # "string" => (a' = a /\ Is(last'.err, ErrScan))
          /\ last'.kind = "string" =>
                 (a' = Zero /\ String(a') = <<>> /\ ~Is(last'.err, ErrScan))]_vars

\* a rejected string scanned into a receiver that held a valid hash
FailedScanWitness ==
    /\ last.op = "Scan" /\ last.kind = "string" /\ last.err # NoError
    /\ last.wasValid
    /\ a = Zero

====
